---- MODULE Spec2Model ----
(***************************************************************************)
(* Model of the byte source and database dispatcher of rust-ip2location    *)
(* (src/common.rs): the two Source backends (seek-and-read file handle,    *)
(* memory map) with their five typed reads, and DB::from_file /            *)
(* DB::from_file_mmap.                                                     *)
(*                                                                         *)
(* Representation of values:                                               *)
(*   - a file is a sequence of bytes (0..255); Rust's 0-based index k is   *)
(*     file[k + 1];                                                        *)
(*   - a 32-bit value is the pair <<hi, lo>> of its 16-bit halves (the     *)
(*     value is hi * 65536 + lo), because it does not fit the model        *)
(*     checker's integers; read_f32 returns the same 32 bits;              *)
(*   - a String is the sequence of its UTF-8 bytes, an Ipv6Addr the        *)
(*     sequence of its 16 octets in network order;                         *)
(*   - a Result is [kind, val]: kind "ok" with the value, "io_error",      *)
(*     "utf8_error" with val <<>>, and "panic" for a Rust panic.           *)
(***************************************************************************)
EXTENDS Integers, Sequences, FiniteSets, TLC

VARIABLES
    file,             \* the bytes of the database file (never written)
    kind,             \* "File" | "Mmap": the variant of the Source over it
    target_endian,    \* "little" | "big": the endianness of the build target
    overflow_checks,  \* TRUE: arithmetic overflow panics (debug build); FALSE: it wraps
    cursor,           \* Source::File: position of the file handle (0-based)
    call,             \* the typed read last called: [op, off]
    ret,              \* the Result it returned ("none" while it runs)
    pc,               \* "idle" | "read_ipv6" (inside the loop of read_ipv6)
    i, j, buf,        \* locals of read_ipv6
    reads,            \* offsets passed to read_u8 by the running read_ipv6
    \* -- DB::from_file / DB::from_file_mmap
    fs,               \* the file system: what is at each path
    opened,           \* the last open: [api, path, res]
    \* -- the range index search
    table,            \* the lower bounds of the rows, ascending
    address,          \* the address searched for
    low, high,        \* the interval [low, high) of row indices still possible
    found,            \* the row returned, -1 while the search runs
    \* -- lookup
    ipv4_table,       \* lower bounds of the IPv4 rows (4 octets each)
    ipv6_table,       \* lower bounds of the IPv6 rows (16 octets each)
    query,            \* the address last looked up: [family, octets]
    record            \* the record returned: [family, row]

source_vars == <<file, kind, target_endian, overflow_checks, cursor, call, ret, pc, i, j, buf, reads>>
open_vars == <<fs, opened>>
find_vars == <<table, address, low, high, found>>
lookup_vars == <<ipv4_table, ipv6_table, query, record>>

vars == <<source_vars, open_vars, find_vars, lookup_vars>>

\* ---------------------------------------------------------------- bounds

MaxFileLen == 3       \* short files: every byte sequence up to this length
MaxOffset == 3        \* offsets passed to the typed reads: 0..MaxOffset
LongFileExtra == 1    \* long files have 16 .. 16 + LongFileExtra bytes

\* Byte values the short files are made of: 0 and 2 (length bytes of the empty
\* and of a two-byte string), 0xC3 0xA9 (a two-byte UTF-8 sequence; either
\* byte alone, or the two swapped, is not UTF-8).
FileBytes == {0, 2, 195, 169}

Min(a, b) == IF a < b THEN a ELSE b

SeqsUpTo(S, n) == UNION {[1..k -> S] : k \in 0..n}

\* Long files: byte k is (a * k + b) mod 256, so neighbouring bytes differ.
LongFiles ==
    {[k \in 1..n |-> (a * k + b) % 256] :
        n \in 16..(16 + LongFileExtra), a \in {1, 37}, b \in {0, 160}}

Files == SeqsUpTo(FileBytes, MaxFileLen) \cup LongFiles

\* ---------------------------------------------------------------- results

Ok(v) == [kind |-> "ok", val |-> v]
IoError == [kind |-> "io_error", val |-> <<>>]
Utf8Error == [kind |-> "utf8_error", val |-> <<>>]
Panic == [kind |-> "panic", val |-> <<>>]
NoResult == [kind |-> "none", val |-> <<>>]

\* The u64 value 2^64 - 1 that 0 - 1 wraps to: above every file length.
U64Max == -1

\* ---------------------------------------------------------------- primitives

\* `offset - 1` on a u64: at offset 0 it panics with overflow checks on and
\* wraps to 2^64 - 1 with them off.  kind "ok" carries the position.
offset_minus_1(offset) ==
    IF offset > 0 THEN Ok(<<offset - 1>>)
    ELSE IF overflow_checks THEN Panic ELSE Ok(<<U64Max>>)

\* f.seek(SeekFrom::Start(pos))?  -- lseek rejects a position above i64::MAX
\* and leaves the cursor alone; any other position is taken, also past the end.
seek_keeps_cursor(cur, pos) ==
    IF pos = U64Max THEN [res |-> IoError, cur |-> cur]
    ELSE [res |-> Ok(<<>>), cur |-> cur]

seek(cur, pos) ==
    IF pos = U64Max THEN [res |-> IoError, cur |-> cur]
    ELSE [res |-> Ok(<<>>), cur |-> pos]

\* let mut buf = [0_u8; n]; f.read(&mut buf)?  -- a regular file hands over the
\* bytes between the cursor and the end of the file, at most n of them; the
\* rest of buf keeps its zeros and the count read is not looked at.
file_read(cur, n) ==
    LET got == IF cur >= Len(file) THEN 0 ELSE Min(n, Len(file) - cur)
    IN  [buf |-> [k \in 1..n |-> IF k <= got THEN file[cur + k] ELSE 0],
         cur |-> cur + got]

\* m[index as usize]: a panic when the index is outside the mapping.
mmap_index_shifted(index) ==
    IF index = U64Max \/ index + 1 >= Len(file) THEN Panic ELSE Ok(<<file[index + 2]>>)

mmap_index(index) ==
    IF index = U64Max \/ index >= Len(file) THEN Panic ELSE Ok(<<file[index + 1]>>)

\* u32::from_ne_bytes(buf) / f32::from_ne_bytes(buf): the bytes in the order of
\* the build target, as <<high half, low half>>.
from_ne_bytes(b) ==
    IF target_endian = "little"
    THEN <<b[3] + 256 * b[4], b[1] + 256 * b[2]>>
    ELSE <<b[2] + 256 * b[1], b[4] + 256 * b[3]>>

\* String::from_utf8 accepts exactly the well-formed UTF-8 byte sequences
\* (Unicode table 3-7).  A byte 0x80..0xBF is a continuation byte; every other
\* byte starts a character, whose length its value fixes.
IsCont(b) == b >= 128 /\ b <= 191

CharLen(b) ==
    IF b <= 127 THEN 1
    ELSE IF b >= 194 /\ b <= 223 THEN 2
    ELSE IF b >= 224 /\ b <= 239 THEN 3
    ELSE IF b >= 240 /\ b <= 244 THEN 4
    ELSE 0

\* The range of the byte after the lead byte b.
SecondLow(b) == IF b = 224 THEN 160 ELSE IF b = 240 THEN 144 ELSE 128
SecondHigh(b) == IF b = 237 THEN 159 ELSE IF b = 244 THEN 143 ELSE 191

WellFormedAt(s, k) ==
    LET n == CharLen(s[k]) IN
    /\ n > 0
    /\ k + n - 1 <= Len(s)
    /\ n >= 2 => (s[k + 1] >= SecondLow(s[k]) /\ s[k + 1] <= SecondHigh(s[k]))
    /\ \A m \in (k + 2)..(k + n - 1) : IsCont(s[m])
    /\ k + n <= Len(s) => ~IsCont(s[k + n])

IsUtf8(s) ==
    /\ Len(s) > 0 => ~IsCont(s[1])
    /\ \A k \in 1..Len(s) : IsCont(s[k]) \/ WellFormedAt(s, k)

from_utf8(bytes) == IF IsUtf8(bytes) THEN Ok(bytes) ELSE Utf8Error

\* ---------------------------------------------------------------- Source
\* self is [kind |-> "File" | "Mmap", cur |-> the file handle's position]; a
\* typed read returns [res |-> its Result, cur |-> the position it leaves].

Kinds == {"File", "Mmap"}

Left(self, res) == [res |-> res, cur |-> self.cur]

read_u8(self, offset) ==
    LET p == offset_minus_1(offset) IN
    IF p.kind # "ok" THEN Left(self, p)
    ELSE IF self.kind = "File"
    THEN LET s == seek(self.cur, p.val[1]) IN
         IF s.res.kind # "ok" THEN s
         ELSE LET r == file_read(s.cur, 1) IN [res |-> Ok(<<r.buf[1]>>), cur |-> r.cur]
    ELSE Left(self, mmap_index(p.val[1]))

\* The four indexed bytes of the Mmap arm of read_u32 / read_f32, in order:
\* the first one outside the mapping panics.
mmap_4_bytes(offset) ==
    LET p == offset_minus_1(offset) IN
    IF p.kind # "ok" THEN p
    ELSE LET b0 == mmap_index(p.val[1])
             b1 == mmap_index(offset)
             b2 == mmap_index(offset + 1)
             b3 == mmap_index(offset + 2)
         IN  IF b0.kind # "ok" THEN b0
             ELSE IF b1.kind # "ok" THEN b1
             ELSE IF b2.kind # "ok" THEN b2
             ELSE IF b3.kind # "ok" THEN b3
             ELSE Ok(<<b0.val[1], b1.val[1], b2.val[1], b3.val[1]>>)

read_u32(self, offset) ==
    IF self.kind = "File"
    THEN LET p == offset_minus_1(offset) IN
         IF p.kind # "ok" THEN Left(self, p)
         ELSE LET s == seek(self.cur, p.val[1]) IN
              IF s.res.kind # "ok" THEN s
              ELSE LET r == file_read(s.cur, 4)
                   IN  [res |-> Ok(from_ne_bytes(r.buf)), cur |-> r.cur]
    ELSE LET b == mmap_4_bytes(offset) IN
         IF b.kind # "ok" THEN Left(self, b) ELSE Left(self, Ok(from_ne_bytes(b.val)))

\* The same code as read_u32 with f32::from_ne_bytes: the result is the f32
\* with these 32 bits.
read_f32(self, offset) ==
    IF self.kind = "File"
    THEN LET p == offset_minus_1(offset) IN
         IF p.kind # "ok" THEN Left(self, p)
         ELSE LET s == seek(self.cur, p.val[1]) IN
              IF s.res.kind # "ok" THEN s
              ELSE LET r == file_read(s.cur, 4)
                   IN  [res |-> Ok(from_ne_bytes(r.buf)), cur |-> r.cur]
    ELSE LET b == mmap_4_bytes(offset) IN
         IF b.kind # "ok" THEN Left(self, b) ELSE Left(self, Ok(from_ne_bytes(b.val)))

\* for i in 0..len { buf[i] = m[(offset + 1) as usize + i] }
mmap_bytes_from_length_byte(start, len) ==
    IF len > 0 /\ start + len - 1 > Len(file) THEN Panic
    ELSE Ok([k \in 1..len |-> file[start + k - 1]])

mmap_bytes(start, len) ==
    IF len > 0 /\ start + len > Len(file) THEN Panic
    ELSE Ok([k \in 1..len |-> file[start + k]])

read_str(self, offset) ==
    LET l == read_u8(self, offset + 1) IN
    IF l.res.kind # "ok" THEN l
    ELSE LET len == l.res.val[1] IN
         IF self.kind = "File"
         THEN LET s == seek(l.cur, offset + 1) IN
              IF s.res.kind # "ok" THEN s
              ELSE LET r == file_read(s.cur, len)
                   IN  [res |-> from_utf8(r.buf), cur |-> r.cur]
         ELSE LET b == mmap_bytes(offset + 1, len) IN
              IF b.kind # "ok" THEN Left(self, b) ELSE Left(self, from_utf8(b.val))

\* if j > 0 { j -= 1; }
next_j_unguarded(jj) == jj - 1

next_j(jj) == IF jj > 0 THEN jj - 1 ELSE jj

Zeros16 == [k \in 1..16 |-> 0]

\* One turn of `while i < 16` in read_ipv6, on the locals l = [i, j, buf]:
\* buf[i] = self.read_u8(offset + j)?; i += 1; if j > 0 { j -= 1; }
\* res is the Result of read_u8; the locals move on only when it is Ok.
ipv6_turn(self, offset, l) ==
    LET r == read_u8(self, offset + l.j) IN
    IF r.res.kind = "ok"
    THEN [res |-> r.res, cur |-> r.cur,
          l |-> [i |-> l.i + 1, j |-> next_j(l.j),
                 buf |-> [l.buf EXCEPT ![l.i + 1] = r.res.val[1]]]]
    ELSE [res |-> r.res, cur |-> r.cur, l |-> l]

RECURSIVE ipv6_while(_, _, _)
ipv6_while(self, offset, l) ==
    IF l.i < 16
    THEN LET t == ipv6_turn(self, offset, l) IN
         IF t.res.kind # "ok" THEN [res |-> t.res, cur |-> t.cur]
         ELSE ipv6_while([kind |-> self.kind, cur |-> t.cur], offset, t.l)
    ELSE [res |-> Ok(l.buf), cur |-> self.cur]

\* read_ipv6 from call to return.
read_ipv6(self, offset) ==
    ipv6_while(self, offset, [i |-> 0, j |-> 15, buf |-> Zeros16])

\* ---------------------------------------------------------------- typed reads as steps

Offsets == 0..MaxOffset

\* The Source the reads are made on.
Self == [kind |-> kind, cur |-> cursor]

\* The parts of the state a specification does not use stay as they are here.
OpenUnused == fs = <<>> /\ opened = <<>>
FindUnused == table = <<>> /\ address = 0 /\ low = 0 /\ high = 0 /\ found = -1
LookupUnused == ipv4_table = <<>> /\ ipv6_table = <<>> /\ query = <<>> /\ record = <<>>
SourceUnused ==
    /\ file = <<>>
    /\ kind = "File"
    /\ target_endian = "little"
    /\ overflow_checks = FALSE
    /\ cursor = 0
    /\ call = <<>>
    /\ ret = <<>>
    /\ pc = "idle"
    /\ i = 0
    /\ j = 0
    /\ buf = <<>>
    /\ reads = <<>>

Init ==
    /\ OpenUnused
    /\ FindUnused
    /\ LookupUnused
    /\ file \in Files
    /\ kind \in Kinds
    /\ target_endian \in {"little", "big"}
    /\ overflow_checks \in BOOLEAN
    /\ cursor = 0
    /\ call = [op |-> "none", off |-> 0]
    /\ ret = NoResult
    /\ pc = "idle"
    /\ i = 0
    /\ j = 0
    /\ buf = <<>>
    /\ reads = <<>>

\* One whole call of a typed read without a loop of its own.
Returns(op, offset, r) ==
    /\ call' = [op |-> op, off |-> offset]
    /\ ret' = r.res
    /\ cursor' = r.cur
    /\ UNCHANGED <<file, kind, target_endian, overflow_checks, pc, i, j, buf, reads>>
    /\ UNCHANGED <<open_vars, find_vars, lookup_vars>>

ReadU8(offset) ==
    /\ pc = "idle"
    /\ Returns("read_u8", offset, read_u8(Self, offset))

ReadU32(offset) ==
    /\ pc = "idle"
    /\ Returns("read_u32", offset, read_u32(Self, offset))

ReadF32(offset) ==
    /\ pc = "idle"
    /\ Returns("read_f32", offset, read_f32(Self, offset))

ReadStr(offset) ==
    /\ pc = "idle"
    /\ Returns("read_str", offset, read_str(Self, offset))

\* read_ipv6: let mut buf = [0_u8; 16]; let mut i = 0; let mut j = 15;
ReadIpv6Call(offset) ==
    /\ pc = "idle"
    /\ pc' = "read_ipv6"
    /\ call' = [op |-> "read_ipv6", off |-> offset]
    /\ ret' = NoResult
    /\ i' = 0
    /\ j' = 15
    /\ buf' = Zeros16
    /\ reads' = <<>>
    /\ UNCHANGED <<file, kind, target_endian, overflow_checks, cursor>>
    /\ UNCHANGED <<open_vars, find_vars, lookup_vars>>

\* One turn of the loop of the running read_ipv6.  The `?` returns the error
\* of read_u8 from read_ipv6, and a panic unwinds out of it: either way the
\* locals are gone.
ReadIpv6Loop ==
    /\ pc = "read_ipv6"
    /\ i < 16
    /\ LET t == ipv6_turn(Self, call.off, [i |-> i, j |-> j, buf |-> buf]) IN
        /\ cursor' = t.cur
        /\ IF t.res.kind = "ok"
           THEN /\ buf' = t.l.buf
                /\ i' = t.l.i
                /\ j' = t.l.j
                /\ reads' = Append(reads, call.off + j)
                /\ UNCHANGED <<pc, ret>>
           ELSE /\ ret' = t.res
                /\ pc' = "idle"
                /\ i' = 0
                /\ j' = 0
                /\ buf' = <<>>
                /\ reads' = <<>>
    /\ UNCHANGED <<file, kind, target_endian, overflow_checks, call>>
    /\ UNCHANGED <<open_vars, find_vars, lookup_vars>>

\* The loop is over: Ok(Ipv6Addr::from(buf)), and the locals are gone.
ReadIpv6Return ==
    /\ pc = "read_ipv6"
    /\ i >= 16
    /\ ret' = Ok(buf)
    /\ pc' = "idle"
    /\ i' = 0
    /\ j' = 0
    /\ buf' = <<>>
    /\ reads' = <<>>
    /\ UNCHANGED <<file, kind, target_endian, overflow_checks, cursor, call>>
    /\ UNCHANGED <<open_vars, find_vars, lookup_vars>>

Next ==
    \/ \E offset \in Offsets : ReadU8(offset)
    \/ \E offset \in Offsets : ReadU32(offset)
    \/ \E offset \in Offsets : ReadF32(offset)
    \/ \E offset \in Offsets : ReadStr(offset)
    \/ \E offset \in Offsets : ReadIpv6Call(offset)
    \/ ReadIpv6Loop
    \/ ReadIpv6Return

Spec == Init /\ [][Next]_vars

\* ---------------------------------------------------------------- properties of the typed reads

\* The typed read `op` as one function of the Source and the offset.
typed_read(op, self, offset) ==
    CASE op = "read_u8" -> read_u8(self, offset)
      [] op = "read_u32" -> read_u32(self, offset)
      [] op = "read_f32" -> read_f32(self, offset)
      [] op = "read_str" -> read_str(self, offset)
      [] op = "read_ipv6" -> read_ipv6(self, offset)

\* A Source of the given variant just opened on the file: its handle is at 0.
Fresh(k) == [kind |-> k, cur |-> 0]

OtherKind == IF kind = "File" THEN "Mmap" ELSE "File"

\* A call has returned (or panicked): its result is in ret.
Returned == pc = "idle" /\ call.op # "none"

\* The 1-based positions lo..hi are all inside the file.
Inside(lo, hi) == lo >= 1 /\ hi <= Len(file)

\* The bytes the typed read needs all lie inside the file.
InRange(op, offset) ==
    CASE op = "read_u8" -> Inside(offset, offset)
      [] op = "read_u32" -> Inside(offset, offset + 3)
      [] op = "read_f32" -> Inside(offset, offset + 3)
      [] op = "read_ipv6" -> Inside(offset, offset + 15)
      [] op = "read_str" ->
            Inside(offset + 1, offset + 1) /\ Inside(offset + 1, offset + 1 + file[offset + 1])
      [] OTHER -> FALSE

\* C1: whenever the bytes a typed read needs all lie inside the file, the
\* value it returned is the value the same read returns on the other backend
\* (file handle against memory map) over the same file.
C1_BackendEquivalence ==
    (Returned /\ InRange(call.op, call.off)) =>
        /\ ret.kind \in {"ok", "utf8_error"}
        /\ ret = typed_read(call.op, Fresh(OtherKind), call.off).res

C1_Witness ==
    /\ Returned /\ kind = "Mmap" /\ call.op = "read_u32" /\ InRange(call.op, call.off)
    /\ ret.kind = "ok" /\ ret.val[1] # ret.val[2]

\* C6 (as claimed): a typed read that needs bytes past the end of the file
\* returns an error value: no panic, no value built from fewer bytes.
C6_TruncatedReadIsError ==
    (Returned /\ call.off >= 1 /\ ~InRange(call.op, call.off)) =>
        ret.kind \in {"io_error", "utf8_error"}

\* The stored payload of the string at `offset`: file[offset + 1] bytes from
\* 1-based position offset + 2 on.
Payload(offset) == [k \in 1..file[offset + 1] |-> file[offset + 1 + k]]

\* C7: read_str returns the string stored as a length byte at 1-based position
\* offset + 1 and its bytes from position offset + 2 on, the empty string
\* included, on both backends; a payload that is not UTF-8 is a decode error.
C7_ReadStrRoundTrip ==
    (Returned /\ call.op = "read_str" /\ InRange("read_str", call.off)) =>
        IF IsUtf8(Payload(call.off))
        THEN ret = Ok(Payload(call.off))
        ELSE ret = Utf8Error

C7_Witness ==
    /\ Returned /\ call.op = "read_str" /\ InRange("read_str", call.off)
    /\ ret.kind = "ok" /\ Len(ret.val) = 2 /\ ret.val[1] = 195 /\ kind = "File"

\* C8 (as claimed): read_u32 is b0 + 256 b1 + 65536 b2 + 16777216 b3 of the
\* four bytes at positions offset .. offset + 3, whatever the host.
C8_LittleEndianOnEveryHost ==
    (Returned /\ call.op = "read_u32" /\ InRange("read_u32", call.off)) =>
        ret = Ok(<<file[call.off + 2] + 256 * file[call.off + 3],
                   file[call.off] + 256 * file[call.off + 1]>>)

\* C9: read_ipv6 makes its single-byte reads at offset + 15 down to offset,
\* one per position, 16 when the loop ends; j never goes below 0; and octet k
\* of the address returned is the byte read_u8(offset + 15 - k) reads.
C9_ReadIpv6Reversed ==
    /\ pc = "read_ipv6" =>
        /\ j >= 0
        /\ i <= 16
        /\ Len(reads) = i
        /\ \A k \in 1..i : reads[k] = call.off + 16 - k
        /\ \A k \in 1..i : buf[k] = read_u8(Fresh(kind), call.off + 16 - k).res.val[1]
        /\ \A k \in 1..i : Inside(reads[k], reads[k]) => buf[k] = file[reads[k]]
    /\ (Returned /\ call.op = "read_ipv6" /\ ret.kind = "ok") =>
        /\ Len(ret.val) = 16
        /\ \A k \in 0..15 :
            ret.val[k + 1] = read_u8(Fresh(kind), call.off + 15 - k).res.val[1]
        /\ InRange("read_ipv6", call.off) =>
            \A k \in 0..15 : ret.val[k + 1] = file[call.off + 15 - k]

C9_Witness ==
    /\ pc = "read_ipv6" /\ i = 16 /\ j = 0 /\ InRange("read_ipv6", call.off)
    /\ buf[1] # buf[16] /\ Len(reads) = 16

\* C10: whatever reads came before, a typed read returns what the same read
\* returns on a freshly opened Source: the position an earlier read left the
\* file handle at does not matter.
C10_Stateless ==
    /\ Returned => ret = typed_read(call.op, Fresh(kind), call.off).res
    /\ pc = "read_ipv6" =>
        \A k \in 1..i : buf[k] = read_u8(Fresh(kind), call.off + 16 - k).res.val[1]

\* The second turn of read_ipv6 on a file handle: the first read left the
\* handle at offset + 15, and the second read the byte at offset + 14.
C10_Witness ==
    /\ pc = "read_ipv6" /\ kind = "File" /\ i = 2 /\ InRange("read_ipv6", call.off)
    /\ cursor = call.off + 14
    /\ buf[1] = file[call.off + 15] /\ buf[2] = file[call.off + 14] /\ buf[1] # buf[2]

\* ---------------------------------------------------------------- DB::from_file, DB::from_file_mmap

NumPaths == 2         \* paths the file system holds

Paths == 1..NumPaths

\* What is at a path: whether a file exists there, whether it can be opened
\* for reading, and whether its header parses as a Location / as a Proxy
\* database.  Only a file that can be read parses.
FileStates ==
    {f \in [exists : BOOLEAN, readable : BOOLEAN, location : BOOLEAN, proxy : BOOLEAN] :
        /\ f.readable => f.exists
        /\ (f.location \/ f.proxy) => f.readable}

Opened(db) == [kind |-> "ok", db |-> db]
OpenIoError == [kind |-> "io_error", db |-> "none"]
OpenFormatError == [kind |-> "format_error", db |-> "none"]
UnknownDb == [kind |-> "unknown_db", db |-> "none"]

\* LocationDB::from_file, LocationDB::from_file_mmap, ProxyDB::from_file and
\* ProxyDB::from_file_mmap open the file and parse its header: an I/O error when
\* the file cannot be opened, a format error when the header is not of their
\* schema.
LocationDB_from_file(f) ==
    IF ~f.readable THEN OpenIoError
    ELSE IF f.location THEN Opened("LocationDb") ELSE OpenFormatError

LocationDB_from_file_mmap(f) ==
    IF ~f.readable THEN OpenIoError
    ELSE IF f.location THEN Opened("LocationDb") ELSE OpenFormatError

ProxyDB_from_file(f) ==
    IF ~f.readable THEN OpenIoError
    ELSE IF f.proxy THEN Opened("ProxyDb") ELSE OpenFormatError

ProxyDB_from_file_mmap(f) ==
    IF ~f.readable THEN OpenIoError
    ELSE IF f.proxy THEN Opened("ProxyDb") ELSE OpenFormatError

DB_from_file_proxy_first(f) ==
    IF ~f.exists THEN OpenIoError
    ELSE IF ProxyDB_from_file(f).kind = "ok" THEN Opened("ProxyDb")
    ELSE IF LocationDB_from_file(f).kind = "ok" THEN Opened("LocationDb")
    ELSE UnknownDb

DB_from_file(f) ==
    IF ~f.exists THEN OpenIoError
    ELSE IF LocationDB_from_file(f).kind = "ok" THEN Opened("LocationDb")
    ELSE IF ProxyDB_from_file(f).kind = "ok" THEN Opened("ProxyDb")
    ELSE UnknownDb

DB_from_file_mmap(f) ==
    IF LocationDB_from_file_mmap(f).kind = "ok" THEN Opened("LocationDb")
    ELSE IF ProxyDB_from_file_mmap(f).kind = "ok" THEN Opened("ProxyDb")
    ELSE UnknownDb

InitOpen ==
    /\ SourceUnused
    /\ FindUnused
    /\ LookupUnused
    /\ fs \in [Paths -> FileStates]
    /\ opened = [api |-> "none", path |-> 1, res |-> UnknownDb]

FromFile(path) ==
    /\ opened' = [api |-> "from_file", path |-> path, res |-> DB_from_file(fs[path])]
    /\ UNCHANGED <<fs, source_vars, find_vars, lookup_vars>>

FromFileMmap(path) ==
    /\ opened' = [api |-> "from_file_mmap", path |-> path, res |-> DB_from_file_mmap(fs[path])]
    /\ UNCHANGED <<fs, source_vars, find_vars, lookup_vars>>

NextOpen ==
    \/ \E path \in Paths : FromFile(path)
    \/ \E path \in Paths : FromFileMmap(path)

SpecOpen == InitOpen /\ [][NextOpen]_vars

OpenedFile == fs[opened.path]

C5_MissingIsIoError ==
    (opened.api # "none" /\ ~(OpenedFile.exists /\ OpenedFile.readable)) =>
        opened.res.kind = "io_error"

\* ---------------------------------------------------------------- the range index search
\* An address is the sequence of its octets, most significant first (4 for
\* IPv4, 16 for IPv6); addresses of one family compare as unsigned integers,
\* that is, octet by octet from the left.

RECURSIVE key_le_from(_, _, _)
key_le_from(a, b, k) ==
    IF k > Len(a) THEN TRUE
    ELSE IF a[k] < b[k] THEN TRUE
    ELSE IF a[k] > b[k] THEN FALSE
    ELSE key_le_from(a, b, k + 1)

key_le(a, b) == key_le_from(a, b, 1)

\* The comparison of one step: the midpoint row's lower bound <= the address.
at_or_below_strict(bound, addr) == key_le(bound, addr) /\ bound # addr

at_or_below(bound, addr) == key_le(bound, addr)

\* One step on the interval [lo, hi) of 0-based row indices: keep the half
\* that holds the midpoint when its lower bound <= the address, else the half
\* below it.
narrow(t, addr, lo, hi) ==
    LET mid == (lo + hi) \div 2 IN
    IF at_or_below(t[mid + 1], addr) THEN [low |-> mid, high |-> hi]
    ELSE [low |-> lo, high |-> mid]

\* The search from start to end: the row left when the interval holds one row.
RECURSIVE search(_, _, _, _)
search(t, addr, lo, hi) ==
    IF hi - lo > 1
    THEN LET n == narrow(t, addr, lo, hi) IN search(t, addr, n.low, n.high)
    ELSE lo

find_row(t, addr) == search(t, addr, 0, Len(t))

MaxRows == 3          \* rows of a range table

\* Octet values of the addresses searched: 2-octet keys over these.
KeyOctets == {0, 1, 255}
Keys == [1..2 -> KeyOctets]

IsSorted(t) == \A k \in 1..(Len(t) - 1) : key_le(t[k], t[k + 1])

\* The range tables: at least one row, lower bounds ascending.
Tables(K, n) == {t \in UNION {[1..m -> K] : m \in 1..n} : IsSorted(t)}

InitFind ==
    /\ SourceUnused
    /\ OpenUnused
    /\ LookupUnused
    /\ table \in Tables(Keys, MaxRows)
    /\ address \in Keys
    /\ low = 0
    /\ high = Len(table)
    /\ found = -1

FindNarrow ==
    /\ found = -1
    /\ high - low > 1
    /\ LET n == narrow(table, address, low, high) IN low' = n.low /\ high' = n.high
    /\ UNCHANGED <<table, address, found, source_vars, open_vars, lookup_vars>>

FindReturn ==
    /\ found = -1
    /\ high - low <= 1
    /\ found' = low
    /\ UNCHANGED <<table, address, low, high, source_vars, open_vars, lookup_vars>>

NextFind == FindNarrow \/ FindReturn

SpecFind == InitFind /\ [][NextFind]_vars

\* The linear scan: the last row whose lower bound is <= the address, the
\* first row's lower bound counting as 0 (0-based row index).
Matches(t, addr, r) == r = 0 \/ key_le(t[r + 1], addr)
LinearScan(t, addr) ==
    CHOOSE r \in 0..(Len(t) - 1) :
        /\ Matches(t, addr, r)
        /\ \A q \in (r + 1)..(Len(t) - 1) : ~Matches(t, addr, q)

\* C2: the search returns the row a linear scan for the last row with lower
\* bound <= address returns (first row's bound taken as 0), also for an address
\* equal to a row's lower bound or below the first row's; and while it runs
\* that row stays inside [low, high).
C2_FindRowIsLinearScan ==
    /\ found # -1 => found = LinearScan(table, address)
    /\ found = -1 =>
        /\ low < high /\ high <= Len(table)
        /\ low <= LinearScan(table, address) /\ LinearScan(table, address) < high

C2_Witness ==
    /\ found = 1 /\ Len(table) = 3 /\ table[2] = address /\ table[1] # table[2]
    /\ table[2] # table[3]

\* ---------------------------------------------------------------- lookup

Repeat(n, b) == [k \in 1..n |-> b]

\* The IPv6 special ranges, as 16 octets.
FROM_6TO4 == <<32, 2>> \o Repeat(14, 0)
TO_6TO4_short == <<32, 2, 0, 0>> \o Repeat(12, 255)

TO_6TO4 == <<32, 2>> \o Repeat(14, 255)
FROM_TEREDO == <<32, 1, 0, 0>> \o Repeat(12, 0)
TO_TEREDO == <<32, 1, 0, 0>> \o Repeat(12, 255)

Between(from, a, to) == key_le(from, a) /\ key_le(a, to)

\* The IPv4 address a 6to4 address embeds: its octets 3 to 6.
ipv4_of_6to4(a) == <<a[3], a[4], a[5], a[6]>>

\* The IPv4 address a Teredo address embeds: its last four octets, every bit
\* inverted.
ipv4_of_teredo_not_inverted(a) == <<a[13], a[14], a[15], a[16]>>

ipv4_of_teredo(a) == <<255 - a[13], 255 - a[14], 255 - a[15], 255 - a[16]>>

\* The table searched for an address and the key searched in it.
fold(q) ==
    IF q.family = "v4" THEN q
    ELSE IF Between(FROM_6TO4, q.octets, TO_6TO4)
    THEN [family |-> "v4", octets |-> ipv4_of_6to4(q.octets)]
    ELSE IF Between(FROM_TEREDO, q.octets, TO_TEREDO)
    THEN [family |-> "v4", octets |-> ipv4_of_teredo(q.octets)]
    ELSE q

\* The record of an address: the row found in the table of the folded address.
lookup(q) ==
    LET f == fold(q) IN
    [family |-> f.family,
     row |-> find_row(IF f.family = "v4" THEN ipv4_table ELSE ipv6_table, f.octets)]

MaxIpv4Rows == 2      \* rows of the IPv4 table
MaxIpv6Rows == 2      \* rows of the IPv6 table

\* IPv4 addresses queried and stored: a.0.0.d
Ipv4Octets == {0, 255}
Ipv4Keys == {<<a, 0, 0, d>> : a \in Ipv4Octets, d \in Ipv4Octets}

\* IPv6 addresses queried: 20pp:aaaa:bbbb::cccc:dddd with an IPv4 address in
\* octets 3-6 and one (ending in 0) in octets 13-16.
Ipv6Queries ==
    {<<32, p>> \o a \o Repeat(6, 0) \o b :
        p \in 0..3, a \in Ipv4Keys, b \in {k \in Ipv4Keys : k[4] = 0}}

\* Lower bounds of the IPv6 rows.
Ipv6Keys ==
    {Repeat(16, 0), <<32, 1, 255>> \o Repeat(13, 0), <<32, 3>> \o Repeat(14, 0)}

Queries ==
    [family : {"v4"}, octets : Ipv4Keys] \cup [family : {"v6"}, octets : Ipv6Queries]

InitLookup ==
    /\ SourceUnused
    /\ OpenUnused
    /\ FindUnused
    /\ ipv4_table \in Tables(Ipv4Keys, MaxIpv4Rows)
    /\ ipv6_table \in Tables(Ipv6Keys, MaxIpv6Rows)
    /\ query = [family |-> "none", octets |-> <<>>]
    /\ record = [family |-> "none", row |-> 0]

Lookup(q) ==
    /\ query' = q
    /\ record' = lookup(q)
    /\ UNCHANGED <<ipv4_table, ipv6_table, source_vars, open_vars, find_vars>>

NextLookup == \E q \in Queries : Lookup(q)

SpecLookup == InitLookup /\ [][NextLookup]_vars

Is6to4(a) == a[1] = 32 /\ a[2] = 2
IsTeredo(a) == a[1] = 32 /\ a[2] = 1 /\ a[3] = 0 /\ a[4] = 0

DirectIpv4(octets) ==
    [family |-> "v4", row |-> LinearScan(ipv4_table, octets)]

\* C3: an IPv6 address in 2002::/16 gets the record of the IPv4 address in its
\* octets 3-6, one in 2001:0000::/32 the record of the IPv4 address that is the
\* bit-inverse of its last four octets, and every other IPv6 address the row of
\* the IPv6 table.
C3_SpecialRangesFold ==
    query.family = "v6" =>
        LET a == query.octets IN
        IF Is6to4(a)
        THEN /\ record = DirectIpv4(<<a[3], a[4], a[5], a[6]>>)
             /\ record = lookup([family |-> "v4", octets |-> <<a[3], a[4], a[5], a[6]>>])
        ELSE IF IsTeredo(a)
        THEN LET e == <<255 - a[13], 255 - a[14], 255 - a[15], 255 - a[16]>> IN
             /\ record = DirectIpv4(e)
             /\ record = lookup([family |-> "v4", octets |-> e])
        ELSE record = [family |-> "v6", row |-> LinearScan(ipv6_table, a)]

C3_Witness ==
    /\ query.family = "v6" /\ IsTeredo(query.octets) /\ query.octets[13] = 255
    /\ Len(ipv4_table) = 2 /\ record = [family |-> "v4", row |-> 0]
    /\ ipv4_table[2] = <<255, 0, 0, 0>>

====
